---- MODULE Spec2Model ----
(***************************************************************************)
(* A model of db6's wire-format layer: the connection reader               *)
(* (server.rs, handle_request), the request header parser (http.rs,        *)
(* Request::from_bytes), the JSON tokeniser, parser and renderer (json.rs)  *)
(* and the JsonObject accessors (json.rs).                                 *)
(*                                                                         *)
(* Bytes are the integers 0..255 and text is a sequence of bytes, so that   *)
(* `b'0'..=b'9'` is 48..57 and `data[cur] as char` is the byte's own value. *)
(* Rust's 0-based indices are kept; data[cur] is written At(data, cur).     *)
(* An Option is a sequence of length 0 (None) or 1 (Some).                  *)
(***************************************************************************)
EXTENDS Integers, Sequences, FiniteSets, TLC

VARIABLES
    \* handle_request (server.rs): the peer's bytes not yet read, and the locals
    wire, buf, temp_buff, req_complete, content_index, reading_content,
    pending_bytes, req, pc, result, written, reads,
    \* Request::from_bytes (http.rs): a header block and the parse result
    hsrc, hbytes, hout, hpc,
    \* Json::parse / Display (json.rs): a value, its text, the tokens, what
    \* parse_value returns for them and what Json::parse returns
    jorigin, jval, jitems, jin, jtokens, jvalue, jout, jpc,
    \* JsonObject (json.rs): the map as constructed and as it is now, the value the
    \* last access returned, and the accesses made
    map0, map, returned, accesses,
    \* ID::new (types.rs): the global counter, the thread holding its mutex, and
    \* for each thread where it is in ID::new, what try_lock gave it, the counter
    \* value its increment made and its clone; the IDs returned, the calls begun
    ID_COUNTER, holder, ipc, id_lock, made, cloned, issued, started

serverVars == <<wire, buf, temp_buff, req_complete, content_index, reading_content,
                pending_bytes, req, pc, result, written, reads>>
httpVars == <<hsrc, hbytes, hout, hpc>>
jsonVars == <<jorigin, jval, jitems, jin, jtokens, jvalue, jout, jpc>>
objectVars == <<map0, map, returned, accesses>>
idVars == <<ID_COUNTER, holder, ipc, id_lock, made, cloned, issued, started>>
vars == <<serverVars, httpVars, jsonVars, objectVars, idVars>>

----------------------------------------------------------------------------
\* Text helpers: the std operations the code calls on slices and strs.

\* data[i] with Rust's 0-based index
At(s, i) == s[i + 1]

\* s[from..] with a 0-based start
SliceFrom(s, from) == SubSeq(s, from + 1, Len(s))

\* s[..to] with a 0-based exclusive end
SliceTo(s, to) == SubSeq(s, 1, to)

\* whether pat occurs in s at the 0-based offset i
MatchesAt(s, pat, i) ==
    /\ i + Len(pat) <= Len(s)
    /\ \A j \in 1..Len(pat) : s[i + j] = pat[j]

\* str::contains
Contains(s, pat) == \E i \in 0..(Len(s) - 1) : MatchesAt(s, pat, i)

\* str::find(..).unwrap(): the 0-based offset of the first occurrence
Find(s, pat) ==
    CHOOSE i \in 0..(Len(s) - 1) :
        /\ MatchesAt(s, pat, i)
        /\ \A j \in 0..(i - 1) : ~MatchesAt(s, pat, j)

\* str::split(pat).collect(): the pieces between the occurrences of pat
RECURSIVE Split(_, _)
Split(s, pat) ==
    IF ~Contains(s, pat) THEN <<s>>
    ELSE LET i == Find(s, pat)
         IN  <<SliceTo(s, i)>> \o Split(SliceFrom(s, i + Len(pat)), pat)

\* a UTF-8 continuation byte 0x80..0xBF
IsContinuation(b) == b >= 128 /\ b <= 191

\* the length of the UTF-8 sequence a lead byte opens, 0 for a byte that opens none
Utf8Width(b) ==
    IF b < 128 THEN 1
    ELSE IF b >= 194 /\ b <= 223 THEN 2
    ELSE IF b >= 224 /\ b <= 239 THEN 3
    ELSE IF b >= 240 /\ b <= 244 THEN 4
    ELSE 0

\* the ranges UTF-8 allows for the byte after the leads E0, ED, F0 and F4
SecondByteOk(lead, b) ==
    CASE lead = 224 -> b >= 160
      [] lead = 237 -> b <= 159
      [] lead = 240 -> b >= 144
      [] lead = 244 -> b <= 143
      [] OTHER -> TRUE

\* str::from_utf8(..).is_ok(): every byte that is no continuation byte opens a
\* well-formed sequence, and every continuation byte belongs to one
from_utf8_ok(s) ==
    /\ (Len(s) > 0 => ~IsContinuation(s[1]))
    /\ \A i \in 1..Len(s) :
          ~IsContinuation(s[i]) =>
              LET n == Utf8Width(s[i])
              IN  /\ n > 0
                  /\ i + n - 1 <= Len(s)
                  /\ \A j \in 1..(n - 1) : IsContinuation(s[i + j])
                  /\ (i + n <= Len(s) => ~IsContinuation(s[i + n]))
                  /\ (n > 1 => SecondByteOk(s[i], s[i + 1]))

\* u8::is_ascii_digit
is_ascii_digit(b) == b >= 48 /\ b <= 57

\* the number a run of decimal digits denotes
RECURSIVE DecimalValue(_)
DecimalValue(d) ==
    IF d = <<>> THEN 0
    ELSE DecimalValue(SubSeq(d, 1, Len(d) - 1)) * 10 + (d[Len(d)] - 48)

\* a run of digits without its leading zeros
RECURSIVE StripZeros(_)
StripZeros(d) ==
    IF d # <<>> /\ d[1] = 48 THEN StripZeros(Tail(d)) ELSE d

\* a <= b for two runs of digits without leading zeros
DecimalLeq(a, b) ==
    \/ Len(a) < Len(b)
    \/ /\ Len(a) = Len(b)
       /\ \/ a = b
          \/ \E i \in 1..Len(a) :
                /\ a[i] < b[i]
                /\ \A j \in 1..(i - 1) : a[j] = b[j]

\* usize::MAX = 18446744073709551615 as decimal digits
UsizeMaxDigits ==
    <<49, 56, 52, 52, 54, 55, 52, 52, 48, 55, 51, 55, 48, 57, 53, 53, 49, 54, 49, 53>>

\* isize::MAX = 9223372036854775807 as decimal digits
IsizeMaxDigits ==
    <<57, 50, 50, 51, 51, 55, 50, 48, 51, 54, 56, 53, 52, 55, 55, 53, 56, 48, 55>>

\* str::parse::<usize>().ok(): an optional '+', then one or more digits, in range.
\* The usize is kept as its decimal digits without leading zeros, which holds every
\* value up to usize::MAX.
parse_usize(v) ==
    LET d == IF v # <<>> /\ v[1] = 43 THEN Tail(v) ELSE v
    IN  IF d = <<>> \/ (\E i \in 1..Len(d) : ~is_ascii_digit(d[i])) THEN <<>>
        ELSE IF ~DecimalLeq(StripZeros(d), UsizeMaxDigits) THEN <<>>
        ELSE <<StripZeros(d)>>

----------------------------------------------------------------------------
\* http.rs

CRLF == <<13, 10>>
Space == <<32>>
ColonSpace == <<58, 32>>

\* supports_request_body with `_ => true`
supports_request_body_always(m) == m = m

\* HttpMethod::supports_request_body
supports_request_body(m) == m \in {"POST", "PUT", "PATCH", "DELETE", "OPTIONS"}

\* impl FromStr for HttpMethod: Some(method), or None for "Invalid HTTP Method"
HttpMethod_from_str(s) ==
    CASE s = <<71, 69, 84>> -> <<"GET">>
      [] s = <<80, 79, 83, 84>> -> <<"POST">>
      [] s = <<80, 85, 84>> -> <<"PUT">>
      [] s = <<80, 65, 84, 67, 72>> -> <<"PATCH">>
      [] s = <<68, 69, 76, 69, 84, 69>> -> <<"DELETE">>
      [] s = <<72, 69, 65, 68>> -> <<"HEAD">>
      [] s = <<79, 80, 84, 73, 79, 78, 83>> -> <<"OPTIONS">>
      [] s = <<84, 82, 65, 67, 69>> -> <<"TRACE">>
      [] s = <<67, 79, 78, 78, 69, 67, 84>> -> <<"CONNECT">>
      [] OTHER -> <<>>

\* impl Display for HttpMethod
HttpMethod_fmt(m) ==
    CASE m = "GET" -> <<71, 69, 84>>
      [] m = "POST" -> <<80, 79, 83, 84>>
      [] m = "PUT" -> <<80, 85, 84>>
      [] m = "PATCH" -> <<80, 65, 84, 67, 72>>
      [] m = "DELETE" -> <<68, 69, 76, 69, 84, 69>>
      [] m = "HEAD" -> <<72, 69, 65, 68>>
      [] m = "OPTIONS" -> <<79, 80, 84, 73, 79, 78, 83>>
      [] m = "TRACE" -> <<84, 82, 65, 67, 69>>
      [] m = "CONNECT" -> <<67, 79, 78, 78, 69, 67, 84>>

\* text/plain, application/json, application/octet-stream
TextPlainText == <<116, 101, 120, 116, 47, 112, 108, 97, 105, 110>>
ApplicationJsonText ==
    <<97, 112, 112, 108, 105, 99, 97, 116, 105, 111, 110, 47, 106, 115, 111, 110>>
ApplicationOctetStreamText ==
    <<97, 112, 112, 108, 105, 99, 97, 116, 105, 111, 110, 47, 111, 99, 116, 101, 116,
      45, 115, 116, 114, 101, 97, 109>>

\* impl FromStr for ContentType: Some(type), or None for "Invalid content type"
ContentType_from_str(s) ==
    CASE s = TextPlainText -> <<"TextPlain">>
      [] s = ApplicationJsonText -> <<"ApplicationJson">>
      [] s = ApplicationOctetStreamText -> <<"ApplicationOctetStream">>
      [] OTHER -> <<>>

\* the header names Request::from_bytes matches: Host, Content-Type, Content-Length
HostName == <<72, 111, 115, 116>>
ContentTypeName == <<67, 111, 110, 116, 101, 110, 116, 45, 84, 121, 112, 101>>
ContentLengthName ==
    <<67, 111, 110, 116, 101, 110, 116, 45, 76, 101, 110, 103, 116, 104>>

\* HeaderLine with `Err(_) => content_length`: an unparsable Content-Length keeps the
\* length an earlier line gave
HeaderLineKeepsLength(line, method, acc) ==
    IF ~Contains(line, ColonSpace) THEN acc
    ELSE LET colon == Find(line, ColonSpace)
         IN  IF colon + 2 = Len(line) THEN acc
             ELSE LET name == SliceTo(line, colon)
                      value == SliceFrom(line, colon + 2)
                  IN  CASE name = HostName -> [acc EXCEPT !.host = <<value>>]
                        [] name = ContentTypeName ->
                             IF supports_request_body(method)
                             THEN LET ct == ContentType_from_str(value)
                                  IN  IF ct = <<>>
                                      THEN [acc EXCEPT !.err = <<"Invalid content type">>]
                                      ELSE [acc EXCEPT !.content_type = ct]
                             ELSE acc
                        [] name = ContentLengthName ->
                             IF supports_request_body(method)
                             THEN IF parse_usize(value) = <<>> THEN acc
                                  ELSE [acc EXCEPT !.content_length = parse_usize(value)]
                             ELSE acc
                        [] OTHER -> acc

\* One turn of the loop over headers[1..]; acc holds host, content_type,
\* content_length and the error of an early return.
HeaderLine(line, method, acc) ==
    IF ~Contains(line, ColonSpace) THEN acc
    ELSE LET colon == Find(line, ColonSpace)
         IN  IF colon + 2 = Len(line) THEN acc
             ELSE LET name == SliceTo(line, colon)
                      value == SliceFrom(line, colon + 2)
                  IN  CASE name = HostName -> [acc EXCEPT !.host = <<value>>]
                        [] name = ContentTypeName ->
                             IF supports_request_body(method)
                             THEN LET ct == ContentType_from_str(value)
                                  IN  IF ct = <<>>
                                      THEN [acc EXCEPT !.err = <<"Invalid content type">>]
                                      ELSE [acc EXCEPT !.content_type = ct]
                             ELSE acc
                        [] name = ContentLengthName ->
                             IF supports_request_body(method)
                             THEN [acc EXCEPT !.content_length = parse_usize(value)]
                             ELSE acc
                        [] OTHER -> acc

\* the loop over headers[1..], left at the first early return
RECURSIVE HeaderLines(_, _, _, _)
HeaderLines(headers, i, method, acc) ==
    IF i > Len(headers) \/ acc.err # <<>> THEN acc
    ELSE HeaderLines(headers, i + 1, method, HeaderLine(headers[i], method, acc))

HttpErr(msg) == [ok |-> FALSE, panic |-> FALSE, err |-> msg]

\* Vec::reserve_exact panics when the capacity asked for exceeds isize::MAX bytes
HttpPanic == [ok |-> FALSE, panic |-> TRUE, err |-> "capacity overflow"]

\* the Option locals of Request::from_bytes as declared, all None
NoFields ==
    [method |-> <<>>, route |-> <<>>, http_version |-> <<>>, host |-> <<>>,
     content_type |-> <<>>, content_length |-> <<>>, err |-> <<>>]

\* the body of `if headers.len() > 1`: the request line, then the header lines
RequestLine(headers) ==
    LET first_header == Split(headers[1], Space)
    IN  IF Len(first_header) # 3
        THEN [NoFields EXCEPT
                 !.err = <<"The first header of this request is of invalid format">>]
        ELSE LET method == HttpMethod_from_str(first_header[1])
             IN  IF method = <<>>
                 THEN [NoFields EXCEPT !.err = <<"Invalid HTTP Method">>]
                 ELSE HeaderLines(headers, 2, method[1],
                          [NoFields EXCEPT !.method = method,
                                           !.route = <<first_header[2]>>,
                                           !.http_version = <<first_header[3]>>])

\* Request::from_bytes. `content.reserve_exact(content_length)` panics above
\* isize::MAX; an allocation below that is taken to succeed, and the lengths used
\* stay far below it.
from_bytes(bytes) ==
    IF ~from_utf8_ok(bytes) THEN HttpErr("invalid utf-8 sequence")
    ELSE LET headers == Split(bytes, CRLF)
             f == IF Len(headers) > 1 THEN RequestLine(headers) ELSE NoFields
         IN  IF f.err # <<>> THEN HttpErr(f.err[1])
             ELSE IF f.method = <<>>
             THEN HttpErr("Invalid request - Method was not found")
             ELSE IF f.route = <<>>
             THEN HttpErr("Invalid request - Route was not found")
             ELSE IF f.http_version = <<>>
             THEN HttpErr("Invalid request - HTTP version is not found")
             ELSE IF f.host = <<>>
             THEN HttpErr("Invalid request - Host is not found")
             ELSE IF /\ f.content_length # <<>>
                     /\ ~DecimalLeq(f.content_length[1], IsizeMaxDigits)
             THEN HttpPanic
             ELSE [ok |-> TRUE,
                   method |-> f.method[1],
                   route |-> f.route[1],
                   http_version |-> f.http_version[1],
                   host |-> f.host[1],
                   content_type |-> f.content_type,
                   content_length |->
                       IF f.content_length = <<>> THEN <<>>
                       ELSE <<DecimalValue(f.content_length[1])>>]

----------------------------------------------------------------------------
\* json.rs: tokens, values and text

\* A Token is [t |-> "CurlyOpen"], "CurlyClose", "BracketOpen", "BracketClose",
\* "Comma", "Colon", "Null", [t |-> "String", s |-> chars], [t |-> "Bool", b |-> b],
\* [t |-> "Int", i |-> n] or [t |-> "Float", m |-> mantissa, e |-> decimals].
\* A String's chars are code points. A Float is the decimal m / 10^e with no
\* trailing zero among its e decimals, which is exact for the short literals used.
\*
\* Each variant keeps its payload in a field of its own. A Json is
\* [t |-> "Number", n |-> [t |-> "Int", i |-> n]] (or a Float),
\* [t |-> "String", s |-> chars], [t |-> "List", l |-> <<Json, ...>>],
\* [t |-> "Object", o |-> [key -> Json]], [t |-> "Bool", b |-> b],
\* [t |-> "Null"] or [t |-> "None"].

JsonErr(msg) == [kind |-> "err", err |-> msg]

\* an out-of-bounds index: the process aborts with a panic
JsonPanic == [kind |-> "panic"]

\* i64::MAX = 9223372036854775807 as decimal digits
I64MaxDigits ==
    <<57, 50, 50, 51, 51, 55, 50, 48, 51, 54, 56, 53, 52, 55, 55, 53, 56, 48, 55>>

\* 10^e
RECURSIVE Pow10(_)
Pow10(e) == IF e = 0 THEN 1 ELSE 10 * Pow10(e - 1)

\* the decimal m / 10^e without the trailing zeros of its decimals
RECURSIVE NormalizeDecimal(_, _)
NormalizeDecimal(m, e) ==
    IF e > 0 /\ m % 10 = 0 THEN NormalizeDecimal(m \div 10, e - 1)
    ELSE [m |-> m, e |-> e]

\* num_str.parse::<f64>() of a literal of digits with one '.': always Ok
parse_f64(num_str) ==
    LET dot == Find(num_str, <<46>>)
        digits == SliceTo(num_str, dot) \o SliceFrom(num_str, dot + 1)
        d == NormalizeDecimal(DecimalValue(digits), Len(num_str) - dot - 1)
    IN  [t |-> "Float", m |-> d.m, e |-> d.e]

\* num_str.parse::<i64>() of a literal of digits: Some(n), or None when out of range
parse_i64(num_str) ==
    IF DecimalLeq(StripZeros(num_str), I64MaxDigits)
    THEN <<DecimalValue(num_str)>>
    ELSE <<>>

\* The loop of the number arm: the cursor after the literal, or a panic when
\* data[cur] is read with cur == data.len().
RECURSIVE ScanNumber(_, _, _)
ScanNumber(data, cur, found_decimal) ==
    IF cur >= Len(data) THEN [panic |-> TRUE]
    ELSE IF is_ascii_digit(At(data, cur)) \/ (~found_decimal /\ At(data, cur) = 46)
    THEN ScanNumber(data, cur + 1, found_decimal \/ At(data, cur) = 46)
    ELSE [panic |-> FALSE, cur |-> cur, found_decimal |-> found_decimal]

\* u8::is_ascii_lowercase
is_ascii_lowercase(b) == b >= 97 /\ b <= 122

\* The loop of the identifier arm: the cursor after the run of lowercase letters,
\* or a panic when data[cur] is read with cur == data.len().
RECURSIVE ScanIdent(_, _)
ScanIdent(data, cur) ==
    IF cur >= Len(data) THEN [panic |-> TRUE]
    ELSE IF is_ascii_lowercase(At(data, cur)) THEN ScanIdent(data, cur + 1)
    ELSE [panic |-> FALSE, cur |-> cur]

\* u8::is_ascii_hexdigit
is_ascii_hexdigit(b) ==
    is_ascii_digit(b) \/ (b >= 65 /\ b <= 70) \/ (b >= 97 /\ b <= 102)

\* the value of one hex digit
HexDigit(b) ==
    IF is_ascii_digit(b) THEN b - 48
    ELSE IF b >= 97 THEN b - 87
    ELSE b - 55

\* u32::from_str_radix(uni_str, 16) of four hex digits
from_str_radix(h) ==
    HexDigit(h[1]) * 4096 + HexDigit(h[2]) * 256 + HexDigit(h[3]) * 16 + HexDigit(h[4])

\* char::from_u32_unchecked: every code taken as a char
from_u32_unchecked(code) == <<code>>

\* char::from_u32: Some(char) unless the code is a surrogate or above 0x10FFFF
from_u32(code) ==
    IF (code >= 55296 /\ code <= 57343) \/ code > 1114111 THEN <<>> ELSE <<code>>

\* The `for i in 0..4` loop after \u, cur at the first of the four bytes: "ok", or
\* the error of the first byte that is missing or no hex digit.
UnicodeDigits(data, cur) ==
    IF \A i \in 0..3 : cur + i < Len(data) /\ is_ascii_hexdigit(At(data, cur + i))
    THEN "ok"
    ELSE LET i == CHOOSE k \in 0..3 :
                     /\ ~(cur + k < Len(data) /\ is_ascii_hexdigit(At(data, cur + k)))
                     /\ \A j \in 0..(k - 1) :
                           cur + j < Len(data) /\ is_ascii_hexdigit(At(data, cur + j))
         IN  IF cur + i < Len(data)
             THEN "Expected 4 hex digits after \\u for the unicode character"
             ELSE "Expected 4 characters to be present after \\u for the unicode character, but the JSON representation ended"

\* the char an escape letter stands for, None for an invalid escape
EscapeChar(b) ==
    CASE b = 34 -> <<34>>
      [] b = 92 -> <<92>>
      [] b = 47 -> <<47>>
      [] b = 98 -> <<8>>
      [] b = 102 -> <<12>>
      [] b = 110 -> <<10>>
      [] b = 114 -> <<13>>
      [] b = 116 -> <<9>>
      [] OTHER -> <<>>

\* The loop of the string arm, from the byte after the opening quote: where the loop
\* ends (at the closing quote or at data.len()) and the content, or an error.
RECURSIVE ScanString(_, _, _, _)
ScanString(data, cur, escape, content) ==
    IF ~(cur < Len(data) /\ (escape \/ At(data, cur) # 34))
    THEN [kind |-> "ok", cur |-> cur, content |-> content]
    ELSE LET b == At(data, cur)
         IN  IF ~escape /\ b = 92 THEN ScanString(data, cur + 1, TRUE, content)
             ELSE IF ~escape THEN ScanString(data, cur + 1, FALSE, Append(content, b))
             ELSE IF b = 117
             THEN LET digits == UnicodeDigits(data, cur + 1)
                  IN  IF digits # "ok" THEN JsonErr(<<digits>>)
                      ELSE LET ch == from_u32(from_str_radix(
                                         SubSeq(data, cur + 2, cur + 5)))
                           IN  IF ch = <<>>
                               THEN JsonErr(<<"Failed to convert the provided unicode codepoint to a unicode scalar value">>)
                               ELSE ScanString(data, cur + 1 + 3 + 1, FALSE,
                                               Append(content, ch[1]))
             ELSE IF EscapeChar(b) = <<>>
             THEN JsonErr(<<"Invalid escape sequence found in JSON">>)
             ELSE ScanString(data, cur + 1, FALSE, Append(content, EscapeChar(b)[1]))

TrueText == <<116, 114, 117, 101>>
FalseText == <<102, 97, 108, 115, 101>>
NullText == <<110, 117, 108, 108>>

\* the token of a single-character structural byte, None for any other byte
Punctuation(b) ==
    CASE b = 123 -> <<[t |-> "CurlyOpen"]>>
      [] b = 125 -> <<[t |-> "CurlyClose"]>>
      [] b = 91 -> <<[t |-> "BracketOpen"]>>
      [] b = 93 -> <<[t |-> "BracketClose"]>>
      [] b = 58 -> <<[t |-> "Colon"]>>
      [] b = 44 -> <<[t |-> "Comma"]>>
      [] OTHER -> <<>>

\* Json::tokenise from the cursor cur with the tokens res pushed so far:
\* [kind |-> "ok", tokens], an error, or a panic.
RECURSIVE tokenise_from(_, _, _)
tokenise_from(data, cur, res) ==
    IF ~(cur < Len(data)) THEN [kind |-> "ok", tokens |-> res]
    ELSE
    LET b == At(data, cur)
    IN  IF is_ascii_digit(b)
        THEN LET n == ScanNumber(data, cur, FALSE)
             IN  IF n.panic THEN JsonPanic
                 ELSE LET num_str == SubSeq(data, cur + 1, n.cur)
                      IN  IF n.found_decimal
                          THEN tokenise_from(data, n.cur, Append(res, parse_f64(num_str)))
                          ELSE IF parse_i64(num_str) = <<>>
                          THEN JsonErr(<<"Failed to parse the integer">>)
                          ELSE tokenise_from(data, n.cur,
                                   Append(res, [t |-> "Int", i |-> parse_i64(num_str)[1]]))
        ELSE IF Punctuation(b) # <<>>
        THEN tokenise_from(data, cur + 1, Append(res, Punctuation(b)[1]))
        ELSE IF b \in {32, 9, 10}
        THEN tokenise_from(data, cur + 1, res)
        ELSE IF is_ascii_lowercase(b)
        THEN LET n == ScanIdent(data, cur)
             IN  IF n.panic THEN JsonPanic
                 ELSE LET ident == SubSeq(data, cur + 1, n.cur)
                      IN  IF ident = TrueText
                          THEN tokenise_from(data, n.cur,
                                   Append(res, [t |-> "Bool", b |-> TRUE]))
                          ELSE IF ident = FalseText
                          THEN tokenise_from(data, n.cur,
                                   Append(res, [t |-> "Bool", b |-> FALSE]))
                          ELSE IF ident = NullText
                          THEN tokenise_from(data, n.cur, Append(res, [t |-> "Null"]))
                          ELSE tokenise_from(data, n.cur, res)
        ELSE IF b = 34
        THEN LET s == ScanString(data, cur + 1, FALSE, <<>>)
             IN  IF s.kind = "err" THEN s
                 ELSE IF s.cur = Len(data)
                 THEN JsonErr(<<"Could not find \" to end the string value">>)
                 ELSE tokenise_from(data, s.cur + 1,
                          Append(res, [t |-> "String", s |-> s.content]))
        ELSE JsonErr(<<"Invalid character found in the JSON", b>>)

\* Json::tokenise
tokenise(data) == tokenise_from(data, 0, <<>>)

\* HashMap::insert
MapInsert(m, key, value) == (key :> value) @@ m

\* HashMap::new
EmptyMap == [k \in {} |-> [t |-> "None"]]

JsonOk(val, ind) == [kind |-> "ok", val |-> val, ind |-> ind]

RECURSIVE parse_value(_, _)
RECURSIVE ObjectLoop(_, _, _)
RECURSIVE ArrayLoop(_, _, _)

\* 'object_loop with cur at a token: left with Ok as soon as data[cur] is no String
ObjectLoop(data, cur, vals_map) ==
    IF At(data, cur).t # "String"
    THEN JsonOk([t |-> "Object", o |-> vals_map], cur)
    ELSE
    LET key == At(data, cur).s
    IN  IF cur + 1 >= Len(data) \/ At(data, cur + 1).t # "Colon"
        THEN JsonErr(<<"Expected : after the key string, before the value of the field", key>>)
        ELSE IF cur + 2 >= Len(data)
        THEN JsonErr(<<"Expected a value after : for the value of the field with key", key>>)
        ELSE
        LET value == parse_value(data, cur + 2)
        IN  IF value.kind # "ok"
            THEN JsonErr(<<"Error while parsing a value of the field with key", key,
                           value.err>>)
            ELSE
            LET next_map == MapInsert(vals_map, key, value.val)
                after == value.ind
            IN  IF after + 1 >= Len(data)
                THEN JsonErr(<<"Expected either a , or a } after the key-value pair, but the JSON ended">>)
                ELSE IF At(data, after + 1).t = "Comma"
                THEN IF after + 2 >= Len(data)
                     THEN JsonErr(<<"Expected a string after the , for the key of the next field. Trailing commas are not allowed in JSON">>)
                     ELSE ObjectLoop(data, after + 2, next_map)
                ELSE IF At(data, after + 1).t = "CurlyClose"
                THEN JsonOk([t |-> "Object", o |-> next_map], after + 1)
                ELSE JsonErr(<<"Expected either a , or a } after the key-value pair, but found an invalid symbol">>)

\* 'array_loop with cur at a token: left with Ok when data[cur] is the closing ]
ArrayLoop(data, cur, list) ==
    IF At(data, cur).t = "BracketClose"
    THEN JsonOk([t |-> "List", l |-> list], cur)
    ELSE
    LET val == parse_value(data, cur)
    IN  IF val.kind # "ok" THEN val
        ELSE
        LET next_list == Append(list, val.val)
            after == val.ind
        IN  IF after + 1 >= Len(data)
            THEN JsonErr(<<"Expected either , after the value or ] to end the array, but the JSON representation ended before that">>)
            ELSE IF At(data, after + 1).t = "Comma"
            THEN IF after + 2 >= Len(data)
                 THEN JsonErr(<<"Expected a value to be present after , in the array, but the JSON representation ended before that">>)
                 ELSE IF At(data, after + 2).t = "BracketClose"
                 THEN JsonErr(<<"Trailing commas are not supported in arrays. Found ] immediately after a ,">>)
                 ELSE ArrayLoop(data, after + 1, next_list)
            ELSE IF At(data, after + 1).t = "BracketClose"
            THEN JsonOk([t |-> "List", l |-> next_list], after + 1)
            ELSE JsonErr(<<"Expected either , or ] after the array value, but found an invalid symbol">>)

\* parse_value without the check that a key follows the {
parse_value_no_key_check(data, ind) ==
    IF ind >= Len(data)
    THEN JsonErr(<<"Expected to find a JSON value, but the JSON representation ended before that">>)
    ELSE
    LET tok == At(data, ind)
    IN  CASE tok.t = "Bool" -> JsonOk([t |-> "Bool", b |-> tok.b], ind)
          [] tok.t = "Null" -> JsonOk([t |-> "Null"], ind)
          [] tok.t = "String" -> JsonOk([t |-> "String", s |-> tok.s], ind)
          [] tok.t = "Int" -> JsonOk([t |-> "Number", n |-> tok], ind)
          [] tok.t = "Float" -> JsonOk([t |-> "Number", n |-> tok], ind)
          [] tok.t = "CurlyOpen" ->
               IF ind + 1 >= Len(data)
               THEN JsonErr(<<"Found { first in the JSON, and expected key-value pairs after it, but the JSON representation ended">>)
               ELSE ObjectLoop(data, ind + 1, EmptyMap)
          [] tok.t = "BracketOpen" ->
               IF ind + 1 >= Len(data)
               THEN JsonErr(<<"Expected either values to be present after [ for the array, or for the array to end with a ], but the JSON representation ended before that">>)
               ELSE ArrayLoop(data, ind + 1, <<>>)
          [] OTHER -> JsonErr(<<"Invalid symbol found in JSON">>)

\* Json::parse_value: the value that starts at token ind and the index of its last
\* token, or an error
parse_value(data, ind) ==
    IF ind >= Len(data)
    THEN JsonErr(<<"Expected to find a JSON value, but the JSON representation ended before that">>)
    ELSE
    LET tok == At(data, ind)
    IN  CASE tok.t = "Bool" -> JsonOk([t |-> "Bool", b |-> tok.b], ind)
          [] tok.t = "Null" -> JsonOk([t |-> "Null"], ind)
          [] tok.t = "String" -> JsonOk([t |-> "String", s |-> tok.s], ind)
          [] tok.t = "Int" -> JsonOk([t |-> "Number", n |-> tok], ind)
          [] tok.t = "Float" -> JsonOk([t |-> "Number", n |-> tok], ind)
          [] tok.t = "CurlyOpen" ->
               IF ind + 1 >= Len(data)
               THEN JsonErr(<<"Found { first in the JSON, and expected key-value pairs after it, but the JSON representation ended">>)
               ELSE IF At(data, ind + 1).t # "String"
               THEN JsonErr(<<"Expected a string value for the key of the field, after {">>)
               ELSE ObjectLoop(data, ind + 1, EmptyMap)
          [] tok.t = "BracketOpen" ->
               IF ind + 1 >= Len(data)
               THEN JsonErr(<<"Expected either values to be present after [ for the array, or for the array to end with a ], but the JSON representation ended before that">>)
               ELSE ArrayLoop(data, ind + 1, <<>>)
          [] OTHER -> JsonErr(<<"Invalid symbol found in JSON">>)

\* Json::parse once the tokens are there: [kind |-> "ok", val] or an error
parse_tokens(tokens) ==
    IF Len(tokens) = 0
    THEN JsonErr(<<"Could not parse a valid JSON value as the string representation is empty">>)
    ELSE LET val == parse_value(tokens, 0)
         IN  IF val.kind # "ok" THEN val
             ELSE IF val.ind = Len(tokens) - 1
             THEN [kind |-> "ok", val |-> val.val]
             ELSE JsonErr(<<"Found the value first in the JSON, but the JSON representation does not end after that">>)

\* Json::parse: [kind |-> "ok", val], an error, or a panic
parse(data) ==
    LET tokens == tokenise(data)
    IN  IF tokens.kind # "ok" THEN tokens ELSE parse_tokens(tokens.tokens)

----------------------------------------------------------------------------
\* json.rs: Display. A HashMap is walked in an order the program does not choose,
\* so the text of a value is one of a set of texts.

\* the decimal digits of n >= 0
RECURSIVE DecimalDigits(_)
DecimalDigits(n) ==
    IF n < 10 THEN <<48 + n>> ELSE DecimalDigits(n \div 10) \o <<48 + (n % 10)>>

\* i64's Display
i64_fmt(n) == IF n < 0 THEN <<45>> \o DecimalDigits(-n) ELSE DecimalDigits(n)

\* the digits of n padded with zeros on the left to the width w
RECURSIVE PadZeros(_, _)
PadZeros(d, w) == IF Len(d) >= w THEN d ELSE PadZeros(<<48>> \o d, w)

\* f64's Display of the decimal m / 10^e: no exponent, and no ".0" for a whole number
f64_fmt(m, e) ==
    LET a == IF m < 0 THEN -m ELSE m
        sign == IF m < 0 THEN <<45>> ELSE <<>>
    IN  IF e = 0 THEN sign \o DecimalDigits(a)
        ELSE sign \o DecimalDigits(a \div Pow10(e)) \o <<46>>
                  \o PadZeros(DecimalDigits(a % Pow10(e)), e)

\* impl Display for JsonNumber
JsonNumber_fmt(num) ==
    IF num.t = "Int" THEN i64_fmt(num.i) ELSE f64_fmt(num.m, num.e)

\* char::encode_utf8
encode_utf8(c) ==
    IF c < 128 THEN <<c>>
    ELSE IF c < 2048 THEN <<192 + (c \div 64), 128 + (c % 64)>>
    ELSE IF c < 65536
    THEN <<224 + (c \div 4096), 128 + ((c \div 64) % 64), 128 + (c % 64)>>
    ELSE <<240 + (c \div 262144), 128 + ((c \div 4096) % 64),
           128 + ((c \div 64) % 64), 128 + (c % 64)>>

\* String's Display: the UTF-8 bytes of its chars, nothing escaped
RECURSIVE String_fmt(_)
String_fmt(chars) ==
    IF chars = <<>> THEN <<>> ELSE encode_utf8(Head(chars)) \o String_fmt(Tail(chars))

\* the orders in which a HashMap with the key set keys may be walked
IterationOrders(keys) ==
    {o \in [1..Cardinality(keys) -> keys] :
        \A i, j \in 1..Cardinality(keys) : o[i] = o[j] => i = j}

RECURSIVE Json_fmt(_)
RECURSIVE ListItems(_, _)
RECURSIVE ObjectItems(_, _, _, _)

\* the loop of the List arm from element i on (1-based here): every element is
\* followed by ", " because i != list.len() holds for every i in 0..list.len()
ListItems(list, i) ==
    IF i > Len(list) THEN {<<>>}
    ELSE {item \o (IF (i - 1) # Len(list) THEN <<44, 32>> ELSE <<>>) \o rest :
              item \in Json_fmt(list[i]), rest \in ListItems(list, i + 1)}

\* the loop of JsonObject's Display over the order o from its i-th key on
ObjectItems(m, o, i, one_valid_value) ==
    IF i > Len(o) THEN {<<>>}
    ELSE IF m[o[i]].t = "None" THEN ObjectItems(m, o, i + 1, one_valid_value)
    ELSE {(IF one_valid_value THEN <<44, 32>> ELSE <<>>)
              \o <<34>> \o String_fmt(o[i]) \o <<34, 32, 58, 32>> \o value \o rest :
              value \in Json_fmt(m[o[i]]), rest \in ObjectItems(m, o, i + 1, TRUE)}

\* impl Display for JsonObject
JsonObject_fmt(m) ==
    UNION {{<<123, 32>> \o items \o <<32, 125>> : items \in ObjectItems(m, o, 1, FALSE)} :
              o \in IterationOrders(DOMAIN m)}

\* impl Display for Json: the texts the value may render to
Json_fmt(j) ==
    CASE j.t = "Number" -> {JsonNumber_fmt(j.n)}
      [] j.t = "String" -> {<<34>> \o String_fmt(j.s) \o <<34>>}
      [] j.t = "List" -> {<<91>> \o items \o <<93>> : items \in ListItems(j.l, 1)}
      [] j.t = "Bool" -> {IF j.b THEN TrueText ELSE FalseText}
      [] j.t = "Object" -> JsonObject_fmt(j.o)
      [] j.t = "Null" -> {NullText}
      [] j.t = "None" -> {<<>>}

----------------------------------------------------------------------------
\* server.rs: handle_request

\* let mut temp_buff = [0; 512]
TempBuffSize == 512

\* let header_end = "\r\n\r\n"
header_end == <<13, 10, 13, 10>>

\* a usize that wrapped below zero is kept as the negative number it is short of 2^64
usize_lt(a, b) ==
    IF (a < 0) = (b < 0) THEN a < b ELSE b < 0

\* `pending_bytes -= n` in the header arm: the difference, or on underflow either a
\* panic (a build with overflow checks) or the wrapped value (a build without)
SubtractArrived(pending, n) ==
    IF n <= pending THEN {[panic |-> FALSE, value |-> pending - n]}
    ELSE {[panic |-> TRUE], [panic |-> FALSE, value |-> pending - n]}

\* What one turn of the loop leaves: the locals, and ret = <<r>> when the turn
\* returns r from handle_request.
Turn(rc, pb, rq, ci, complete, ret) ==
    [reading_content |-> rc, pending_bytes |-> pb, req |-> rq, content_index |-> ci,
     req_complete |-> complete, ret |-> ret]

\* the completion check made only while reading_content
CheckCompleteInBody(rc, pb, rq, ci) ==
    IF pb = 0 /\ rc THEN Turn(FALSE, pb, rq, ci, TRUE, <<>>)
    ELSE Turn(rc, pb, rq, ci, FALSE, <<>>)

\* `if pending_bytes == 0 { reading_content = false; req_complete = true; }`, which
\* every turn that returns nothing ends with
CheckComplete(rc, pb, rq, ci) ==
    IF pb = 0 THEN Turn(FALSE, pb, rq, ci, TRUE, <<>>)
    ELSE Turn(rc, pb, rq, ci, FALSE, <<>>)

\* The arm `!reading_content && temp_str.contains(header_end)`: the header block is
\* what buf holds before the terminator found in temp_buff.
HeaderArm(bytes_read, tb, nbuf, rc, pb, rq) ==
    LET end_index == Find(tb, header_end)
        header_end_index == Len(nbuf) - (bytes_read - end_index)
        ci == header_end_index + Len(header_end)
        head == from_bytes(SliceTo(nbuf, header_end_index))
    IN  IF ~head.ok
        THEN {Turn(rc, pb, rq, ci, FALSE,
                   <<IF head.panic THEN [kind |-> "panic"]
                     ELSE [kind |-> "err", err |-> head.err]>>)}
        ELSE IF head.content_length # <<>>
        THEN {IF left.panic
              THEN Turn(rc, head.content_length[1], rq, ci, FALSE, <<[kind |-> "panic"]>>)
              ELSE CheckComplete(TRUE, left.value, <<head>>, ci) :
                  left \in SubtractArrived(head.content_length[1],
                                           bytes_read - end_index - Len(header_end))}
        ELSE {CheckComplete(rc, pb, <<head>>, ci)}

\* The arm `reading_content && pending_bytes > 0`
BodyArm(bytes_read, pb) ==
    IF usize_lt(bytes_read, pb) THEN pb - bytes_read ELSE 0

\* The Ok(bytes_read) arm of one turn, after buf and temp_buff took the chunk: the
\* turns the code may take (more than one only where the build decides).
ChunkTurn(bytes_read, tb, nbuf, rc, pb, rq, ci) ==
    IF ~from_utf8_ok(tb)
    THEN {Turn(rc, pb, rq, ci, FALSE,
               <<[kind |-> "err",
                  err |-> "Error while converting the request content to a string slice"]>>)}
    ELSE IF ~rc /\ Contains(tb, header_end)
    THEN HeaderArm(bytes_read, tb, nbuf, rc, pb, rq)
    ELSE IF rc /\ pb # 0
    THEN {CheckComplete(rc, BodyArm(bytes_read, pb), rq, ci)}
    ELSE {CheckComplete(rc, pb, rq, ci)}

Min(a, b) == IF a < b THEN a ELSE b

\* stream.read returns bytes_read > 0 bytes of what the peer sent
ReadChunk(bytes_read) ==
    /\ pc = "read"
    /\ bytes_read \in 1..Min(Len(wire), TempBuffSize)
    /\ LET chunk == SubSeq(wire, 1, bytes_read)
           tb == [i \in 1..TempBuffSize |->
                     IF i <= bytes_read THEN chunk[i] ELSE temp_buff[i]]
           nbuf == buf \o chunk
       IN  /\ wire' = SubSeq(wire, bytes_read + 1, Len(wire))
           /\ temp_buff' = tb
           /\ buf' = nbuf
           /\ reads' = Append(reads, bytes_read)
           /\ \E t \in ChunkTurn(bytes_read, tb, nbuf, reading_content, pending_bytes,
                                 req, content_index) :
                 /\ reading_content' = t.reading_content
                 /\ pending_bytes' = t.pending_bytes
                 /\ req' = t.req
                 /\ content_index' = t.content_index
                 /\ req_complete' = t.req_complete
                 /\ result' = t.ret
                 /\ pc' = IF t.ret # <<>> THEN "done"
                          ELSE IF t.req_complete THEN "respond"
                          ELSE "read"
    /\ UNCHANGED written
    /\ UNCHANGED <<httpVars, jsonVars, objectVars, idVars>>

\* Ok(0) taken as the end of the request: the loop ends and the response follows
ReadClosedCompletes ==
    /\ pc = "read"
    /\ wire = <<>>
    /\ reads' = Append(reads, 0)
    /\ req_complete' = TRUE
    /\ reading_content' = FALSE
    /\ pc' = "respond"
    /\ UNCHANGED <<wire, buf, temp_buff, content_index, pending_bytes, req, result,
                   written>>
    /\ UNCHANGED <<httpVars, jsonVars, objectVars, idVars>>

\* stream.read returns Ok(0): the peer has closed and nothing is left to read
ReadClosed ==
    /\ pc = "read"
    /\ wire = <<>>
    /\ reads' = Append(reads, 0)
    /\ result' = <<[kind |-> "err", err |-> "Client disconnected"]>>
    /\ pc' = "done"
    /\ UNCHANGED <<wire, buf, temp_buff, req_complete, content_index, reading_content,
                   pending_bytes, req, written>>
    /\ UNCHANGED <<httpVars, jsonVars, objectVars, idVars>>

\* stream.read returns Err(err)
ReadFails ==
    /\ pc = "read"
    /\ reads' = Append(reads, -1)
    /\ result' = <<[kind |-> "err", err |-> "read error"]>>
    /\ pc' = "done"
    /\ UNCHANGED <<wire, buf, temp_buff, req_complete, content_index, reading_content,
                   pending_bytes, req, written>>
    /\ UNCHANGED <<httpVars, jsonVars, objectVars, idVars>>

\* What follows the loop: Json::parse(buf), whose value is dropped but whose panic
\* is not, then the response; io is how write_all and flush end.
AfterLoop(parsed, rq, io) ==
    IF parsed.kind = "panic"
    THEN [ret |-> [kind |-> "panic"], written |-> "nothing"]
    ELSE IF rq = <<>>
    THEN [ret |-> [kind |-> "err", err |-> "Failed to parse header data from the request"],
          written |-> "nothing"]
    ELSE CASE io = "ok" -> [ret |-> [kind |-> "ok"], written |-> "response"]
           [] io = "flush fails" ->
                [ret |-> [kind |-> "err", err |-> "flush error"], written |-> "response"]
           [] io = "write fails" ->
                [ret |-> [kind |-> "err", err |-> "write error"], written |-> "a prefix"]

\* the loop has ended with req_complete
Respond(io) ==
    /\ pc = "respond"
    /\ LET out == AfterLoop(parse(buf), req, io)
       IN  /\ result' = <<out.ret>>
           /\ written' = out.written
    /\ pc' = "done"
    /\ UNCHANGED <<wire, buf, temp_buff, req_complete, content_index, reading_content,
                   pending_bytes, req, reads>>
    /\ UNCHANGED <<httpVars, jsonVars, objectVars, idVars>>

----------------------------------------------------------------------------
\* Json::parse and Display at work: a text is lexed and parsed; a value is first
\* rendered; a token sequence is handed to the parser as it is.

\* the longest text drawn over JsonAlphabet
MaxTextLen == 3

\* the most elements of an array of tokens
MaxItems == 3

\* [ ] { } , : " \ a u 1 . - and the space
JsonAlphabet == {91, 93, 123, 125, 44, 58, 34, 92, 97, 117, 49, 46, 45, 32}

\* every text over JsonAlphabet of at most MaxTextLen bytes
ShortTexts == UNION {[1..n -> JsonAlphabet] : n \in 0..MaxTextLen}

\* longer texts of the grammar and around it
FamilyTexts ==
    {<<91, 93>>,   \* []
     <<91, 49, 93>>,   \* [1]
     <<91, 49, 44, 50, 93>>,   \* [1,2]
     <<91, 49, 44, 93>>,   \* [1,]
     <<91, 49, 44, 50, 44, 93>>,   \* [1,2,]
     <<123, 125>>,   \* {}
     <<123, 34, 97, 34, 58, 49, 125>>,   \* {"a":1}
     <<123, 34, 97, 34, 58, 49, 44, 125>>,   \* {"a":1,}
     <<123, 34, 97, 34, 58, 49, 44, 34, 98, 34, 58, 50, 125>>,   \* {"a":1,"b":2}
     <<123, 34, 97, 34, 58, 49, 44, 34, 97, 34, 58, 50, 125>>,   \* {"a":1,"a":2}
     <<91, 123, 34, 97, 34, 58, 49, 44, 125, 93>>,   \* [{"a":1,}]
     <<123, 34, 97, 34, 58, 91, 49, 44, 93, 125>>,   \* {"a":[1,]}
     <<91, 91, 49, 44, 93, 93>>,   \* [[1,]]
     <<123, 34, 97, 34, 58, 49, 44, 53>>,   \* {"a":1,5
     <<123, 34, 97, 34, 58, 49, 44, 53, 32>>,   \* {"a":1,5 and a space
     <<91, 123, 34, 97, 34, 58, 49, 44, 44, 93>>,   \* [{"a":1,,]
     <<91, 91, 93, 44, 91, 93, 93>>,   \* [[],[]]
     <<91, 91, 93, 93>>,   \* [[]]
     <<123, 34, 97, 34, 58, 123, 125, 125>>,   \* {"a":{}}
     <<123, 34, 97, 34, 58, 91, 93, 125>>,   \* {"a":[]}
     <<91, 123, 125, 93>>,   \* [{}]
     <<91, 49, 32, 93>>,   \* [1 ]
     <<49, 32>>,   \* 1 
     <<116, 114, 117, 101, 32>>,   \* true 
     <<91, 116, 114, 117, 101, 93>>,   \* [true]
     <<91, 110, 117, 108, 108, 93>>,   \* [null]
     <<91, 49, 46, 53, 93>>,   \* [1.5]
     <<34, 92, 117, 48, 48, 52, 49, 34>>,   \* "\u0041"
     <<34, 92, 117, 48, 48, 52, 49, 66, 34>>,   \* "\u0041B"
     <<34, 92, 117, 100, 56, 48, 48, 34>>,   \* "\ud800"
     <<34, 92, 117, 48, 48, 34>>,   \* "\u00"
     <<34, 92, 117, 48, 48, 101, 57, 34>>,   \* "\u00e9"
     <<34, 92, 117, 48, 48, 52>>,   \* "\u004
     <<34, 92, 117, 48, 48, 122, 122, 34>>,   \* "\u00zz"
     <<34, 97, 98, 99>>,   \* "abc
     <<123, 32, 34, 97, 34, 32, 58, 32, 49, 32, 44, 32, 125>>,   \* { "a" : 1 , }
     <<91, 49, 44, 32, 50, 93>>,   \* [1, 2]
     <<91, 32, 93>>,   \* [ ]
     <<123, 34, 97, 34, 58, 49, 32, 34, 98, 34, 58, 50, 125>>,   \* {"a":1 "b":2}
     <<123, 34, 97, 34, 32, 49, 125>>,   \* {"a" 1}
     <<91, 49, 32, 50, 93>>,   \* [1 2]
     <<49, 50>>,   \* 12
     <<49, 46, 53>>,   \* 1.5
     <<116, 114, 117, 101>>,   \* true
     <<110, 117, 108, 108>>,   \* null
     <<102, 97, 108, 115, 101>>,   \* false
     <<110, 117, 108, 108, 115>>,   \* nulls
     <<34, 97, 92, 110, 98, 34>>,   \* "a\nb"
     <<34, 97, 92, 113, 98, 34>>,   \* "a\qb"
     <<57, 57, 57, 57, 57, 57, 57, 57, 57, 57, 57, 57, 57, 57, 57, 57, 57, 57, 57, 57, 32>>   \* 99999999999999999999 
    }

JInt(n) == [t |-> "Number", n |-> [t |-> "Int", i |-> n]]
JFloat(m, e) == [t |-> "Number", n |-> [t |-> "Float", m |-> m, e |-> e]]
JString(chars) == [t |-> "String", s |-> chars]

\* scalars: 0, 7, 42, -3, 1.5, 0.25, 2.0, -1.5, true, false, null and the strings
\* "", a, "a b", a line feed, a quote, a backslash, e-acute
ScalarValues ==
    {JInt(0), JInt(7), JInt(42), JInt(0 - 3),
     JFloat(15, 1), JFloat(25, 2), JFloat(2, 0), JFloat(0 - 15, 1),
     [t |-> "Bool", b |-> TRUE], [t |-> "Bool", b |-> FALSE], [t |-> "Null"],
     JString(<<>>), JString(<<97>>), JString(<<97, 32, 98>>), JString(<<10>>), JString(<<34>>),
     JString(<<92>>), JString(<<233>>)}

\* lists, and objects with the keys a and b
CompositeValues ==
    {[t |-> "List", l |-> <<>>],
     [t |-> "List", l |-> <<JInt(1)>>],
     [t |-> "List", l |-> <<JInt(1), [t |-> "Bool", b |-> TRUE]>>],
     [t |-> "List", l |-> <<JString(<<97>>), [t |-> "Null"], JInt(2)>>],
     [t |-> "Object", o |-> MapInsert(EmptyMap, <<97>>, JInt(1))],
     [t |-> "Object", o |-> MapInsert(MapInsert(EmptyMap, <<97>>, JInt(1)), <<98>>,
                                      [t |-> "Null"])],
     [t |-> "Object", o |-> MapInsert(MapInsert(EmptyMap, <<97>>, [t |-> "None"]),
                                      <<98>>, JInt(2))]}

\* the elements an array of tokens is made of: the tokens of one value, and the value
ArrayItems ==
    {[tokens |-> <<[t |-> "Int", i |-> 1]>>, val |-> JInt(1)],
     [tokens |-> <<[t |-> "Int", i |-> 2]>>, val |-> JInt(2)],
     [tokens |-> <<[t |-> "Bool", b |-> TRUE]>>, val |-> [t |-> "Bool", b |-> TRUE]],
     [tokens |-> <<[t |-> "Null"]>>, val |-> [t |-> "Null"]],
     [tokens |-> <<[t |-> "String", s |-> <<97>>]>>, val |-> JString(<<97>>)],
     [tokens |-> <<[t |-> "BracketOpen"], [t |-> "BracketClose"]>>,
      val |-> [t |-> "List", l |-> <<>>]],
     [tokens |-> <<[t |-> "CurlyOpen"], [t |-> "String", s |-> <<97>>], [t |-> "Colon"],
                   [t |-> "Int", i |-> 1], [t |-> "CurlyClose"]>>,
      val |-> [t |-> "Object", o |-> MapInsert(EmptyMap, <<97>>, JInt(1))]]}

\* v1 ',' v2 ',' ... ',' vn from the i-th item on
RECURSIVE ItemTokens(_, _)
ItemTokens(items, i) ==
    IF i > Len(items) THEN <<>>
    ELSE items[i].tokens
         \o (IF i < Len(items) THEN <<[t |-> "Comma"]>> ELSE <<>>)
         \o ItemTokens(items, i + 1)

\* '[' v1 ',' v2 ',' ... ',' vn ']'
ArrayTokens(items) ==
    <<[t |-> "BracketOpen"]>> \o ItemTokens(items, 1) \o <<[t |-> "BracketClose"]>>

\* the values of the entries of an object text, as text and as the value meant:
\* 1, 2, null, [1,2] and {"a":1}
EntryValues ==
    {[text |-> <<49>>, val |-> JInt(1)],
     [text |-> <<50>>, val |-> JInt(2)],
     [text |-> NullText, val |-> [t |-> "Null"]],
     [text |-> <<91, 49, 44, 50, 93>>, val |-> [t |-> "List", l |-> <<JInt(1), JInt(2)>>]],
     [text |-> <<123, 34, 97, 34, 58, 49, 125>>,
      val |-> [t |-> "Object", o |-> MapInsert(EmptyMap, <<97>>, JInt(1))]]}

\* the entries of an object text: the keys a and b with the values above
ObjectEntries ==
    {[key |-> k, text |-> v.text, val |-> v.val] : k \in {<<97>>, <<98>>}, v \in EntryValues}

\* "k1":v1,"k2":v2,... from the i-th entry on
RECURSIVE EntryText(_, _)
EntryText(entries, i) ==
    IF i > Len(entries) THEN <<>>
    ELSE <<34>> \o entries[i].key \o <<34, 58>> \o entries[i].text
         \o (IF i < Len(entries) THEN <<44>> ELSE <<>>)
         \o EntryText(entries, i + 1)

\* '{' "k1":v1,...,"kn":vn '}'
ObjectText(entries) == <<123>> \o EntryText(entries, 1) \o <<125>>

JsonIdle ==
    /\ jorigin = "none" /\ jpc = "done"
    /\ jval = <<>> /\ jitems = <<>> /\ jin = <<>> /\ jtokens = <<>>
    /\ jvalue = <<>> /\ jout = <<>>

JsonStart ==
    /\ jvalue = <<>> /\ jout = <<>>
    /\ \/ /\ jorigin = "value" /\ jpc = "value"
          /\ jval \in {<<v>> : v \in ScalarValues \cup CompositeValues}
          /\ jitems = <<>> /\ jin = <<>> /\ jtokens = <<>>
       \/ /\ jorigin = "text" /\ jpc = "text"
          /\ jin \in ShortTexts \cup FamilyTexts
          /\ jval = <<>> /\ jitems = <<>> /\ jtokens = <<>>
       \/ /\ jorigin = "tokens" /\ jpc = "tokens"
          /\ jitems \in UNION {[1..n -> ArrayItems] : n \in 0..MaxItems}
          /\ jtokens = ArrayTokens(jitems)
          /\ jval = <<>> /\ jin = <<>>
       \/ /\ jorigin = "entries" /\ jpc = "text"
          /\ jitems \in UNION {[1..n -> ObjectEntries] : n \in 1..MaxItems}
          /\ jin = ObjectText(jitems)
          /\ jval = <<>> /\ jtokens = <<>>

\* Display: the value is written out as text
Render ==
    /\ jpc = "value"
    /\ jin' \in Json_fmt(jval[1])
    /\ jpc' = "text"
    /\ UNCHANGED <<jorigin, jval, jitems, jtokens, jvalue, jout>>
    /\ UNCHANGED <<serverVars, httpVars, objectVars, idVars>>

\* Json::parse up to the tokens: an error or a panic of tokenise ends the call
Tokenise ==
    /\ jpc = "text"
    /\ LET tokens == tokenise(jin)
       IN  IF tokens.kind = "ok"
           THEN jtokens' = tokens.tokens /\ jout' = jout /\ jpc' = "tokens"
           ELSE jtokens' = jtokens /\ jout' = <<tokens>> /\ jpc' = "done"
    /\ UNCHANGED <<jorigin, jval, jitems, jin, jvalue>>
    /\ UNCHANGED <<serverVars, httpVars, objectVars, idVars>>

\* Json::parse from the tokens on; jvalue is what parse_value(&tokens, 0) returns
ParseTokens ==
    /\ jpc = "tokens"
    /\ jvalue' = IF Len(jtokens) = 0 THEN <<>> ELSE <<parse_value(jtokens, 0)>>
    /\ jout' = <<parse_tokens(jtokens)>>
    /\ jpc' = "done"
    /\ UNCHANGED <<jorigin, jval, jitems, jin, jtokens>>
    /\ UNCHANGED <<serverVars, httpVars, objectVars, idVars>>

----------------------------------------------------------------------------
\* Request::from_bytes at work: a header block is put together from its fields, or
\* taken as it is, and parsed.

\* the most header lines of a block put together from fields
MaxLines == 3

Methods ==
    {"GET", "POST", "PUT", "DELETE", "PATCH", "HEAD", "OPTIONS", "TRACE", "CONNECT"}

\* /x
RouteText == <<47, 120>>

\* HTTP/1.1
VersionText == <<72, 84, 84, 80, 47, 49, 46, 49>>

Header(name, value) == [name |-> name, value |-> value]

\* Host: a | Host: a: b | Host: (empty) | Content-Type: application/json |
\* Content-Type: bogus | Content-Length: 3 | Content-Length: x | Content-Length: -1 |
\* Content-Length: usize::MAX | X: a byte that is no UTF-8
HeaderPool ==
    {Header(HostName, <<97>>), Header(HostName, <<97, 58, 32, 98>>),
     Header(HostName, <<>>),
     Header(ContentTypeName, ApplicationJsonText),
     Header(ContentTypeName, <<98, 111, 103, 117, 115>>),
     Header(ContentLengthName, <<51>>), Header(ContentLengthName, <<120>>),
     Header(ContentLengthName, <<45, 49>>),
     Header(ContentLengthName, UsizeMaxDigits), Header(<<88>>, <<255>>)}

\* CRLF name ": " value for every line from the i-th on
RECURSIVE HeaderText(_, _)
HeaderText(lines, i) ==
    IF i > Len(lines) THEN <<>>
    ELSE CRLF \o lines[i].name \o ColonSpace \o lines[i].value \o HeaderText(lines, i + 1)

\* METHOD SP ROUTE SP VERSION, then the header lines, without the terminator
HeaderBlock(method, route, version, lines) ==
    HttpMethod_fmt(method) \o Space \o route \o Space \o version \o HeaderText(lines, 1)

\* blocks that are not put together from fields: the empty block, a request line
\* alone, one of two and one of four parts, an unknown verb, a line without ": "
RawBlocks ==
    {<<>>,
     <<71, 69, 84, 32, 47, 120, 32, 72, 84, 84, 80, 47, 49, 46, 49>>,
     <<71, 69, 84, 32, 47, 120, 13, 10, 72, 111, 115, 116, 58, 32, 97>>,
     <<71, 69, 84, 32, 47, 120, 32, 72, 32, 49, 13, 10, 72, 111, 115, 116, 58, 32, 97>>,
     <<70, 79, 79, 32, 47, 120, 32, 72, 13, 10, 72, 111, 115, 116, 58, 32, 97>>,
     <<71, 69, 84, 32, 47, 120, 32, 72, 13, 10, 72, 111, 115, 116, 58, 97>>}

\* the fields a request must have
RequiredFields == {"method", "route", "http_version", "host"}

\* s1 SP s2 SP ... for the texts of parts
RECURSIVE JoinSpace(_)
JoinSpace(parts) ==
    IF parts = <<>> THEN <<>>
    ELSE IF Len(parts) = 1 THEN parts[1]
    ELSE parts[1] \o Space \o JoinSpace(Tail(parts))

\* The blocks that lack just the field f: the request line without the method, the
\* route or the version and a Host line, or the whole request line and then no
\* Host line (none at all, or a Content-Length line in its place).
LackingBlocks(f) ==
    {JoinSpace((IF f = "method" THEN <<>> ELSE <<HttpMethod_fmt(m)>>)
               \o (IF f = "route" THEN <<>> ELSE <<RouteText>>)
               \o (IF f = "http_version" THEN <<>> ELSE <<VersionText>>))
     \o HeaderText(l, 1) :
        m \in Methods,
        l \in IF f = "host" THEN {<<>>, <<Header(ContentLengthName, <<51>>)>>}
              ELSE {<<Header(HostName, <<97>>)>>}}

HttpIdle == hpc = "done" /\ hsrc = <<>> /\ hbytes = <<>> /\ hout = <<>>

HttpStart ==
    /\ hout = <<>>
    /\ \/ /\ hpc = "fields"
          /\ hsrc \in {<<[method |-> m, route |-> RouteText, http_version |-> VersionText,
                          lines |-> l]>> :
                          m \in Methods,
                          l \in UNION {[1..n -> HeaderPool] : n \in 0..MaxLines}}
          /\ hbytes = <<>>
       \/ /\ hpc = "block"
          /\ hsrc = <<>>
          /\ hbytes \in RawBlocks \cup UNION {LackingBlocks(f) : f \in RequiredFields}

\* the block as the peer writes it
BuildBlock ==
    /\ hpc = "fields"
    /\ hbytes' = HeaderBlock(hsrc[1].method, hsrc[1].route, hsrc[1].http_version,
                             hsrc[1].lines)
    /\ hpc' = "block"
    /\ UNCHANGED <<hsrc, hout>>
    /\ UNCHANGED <<serverVars, jsonVars, objectVars, idVars>>

\* Request::from_bytes(&buf[..header_end_index])
ParseBlock ==
    /\ hpc = "block"
    /\ hout' = <<from_bytes(hbytes)>>
    /\ hpc' = "done"
    /\ UNCHANGED <<hsrc, hbytes>>
    /\ UNCHANGED <<serverVars, jsonVars, objectVars, idVars>>

----------------------------------------------------------------------------
\* JsonObject's accessors at work

\* the most accesses made to one object
MaxAccesses == 2

\* the keys a, b and c
Keys == {<<97>>, <<98>>, <<99>>}

\* the values stored: 1, null and the Absent placeholder Json::None
StoredValues == {JInt(1), [t |-> "Null"], [t |-> "None"]}

\* the field `none` of a JsonObject: Box::new(Json::None)
none == [t |-> "None"]

ObjectIdle == map0 = EmptyMap /\ map = EmptyMap /\ returned = <<>> /\ accesses = <<>>

\* JsonObject::from_map
ObjectStart ==
    /\ map0 \in UNION {[d -> StoredValues] : d \in SUBSET Keys}
    /\ map = map0
    /\ returned = <<>>
    /\ accesses = <<>>

\* Index written like IndexMut: an absent key is inserted before it is returned
index_inserting(key) ==
    /\ Len(accesses) < MaxAccesses
    /\ map' = IF key \notin DOMAIN map THEN MapInsert(map, key, [t |-> "None"]) ELSE map
    /\ returned' = <<map'[key]>>
    /\ accesses' = Append(accesses, [op |-> "index", key |-> key])
    /\ UNCHANGED map0
    /\ UNCHANGED <<serverVars, httpVars, jsonVars, idVars>>

\* impl Index<String> for JsonObject
index(key) ==
    /\ Len(accesses) < MaxAccesses
    /\ returned' = <<IF key \in DOMAIN map THEN map[key] ELSE none>>
    /\ map' = map
    /\ accesses' = Append(accesses, [op |-> "index", key |-> key])
    /\ UNCHANGED map0
    /\ UNCHANGED <<serverVars, httpVars, jsonVars, idVars>>

\* IndexMut that inserts Json::Null for an absent key
index_mut_null(key) ==
    /\ Len(accesses) < MaxAccesses
    /\ map' = IF key \notin DOMAIN map THEN MapInsert(map, key, [t |-> "Null"]) ELSE map
    /\ returned' = <<map'[key]>>
    /\ accesses' = Append(accesses, [op |-> "index_mut", key |-> key])
    /\ UNCHANGED map0
    /\ UNCHANGED <<serverVars, httpVars, jsonVars, idVars>>

\* impl IndexMut<String> for JsonObject
index_mut(key) ==
    /\ Len(accesses) < MaxAccesses
    /\ map' = IF key \notin DOMAIN map THEN MapInsert(map, key, [t |-> "None"]) ELSE map
    /\ returned' = <<map'[key]>>
    /\ accesses' = Append(accesses, [op |-> "index_mut", key |-> key])
    /\ UNCHANGED map0
    /\ UNCHANGED <<serverVars, httpVars, jsonVars, idVars>>

----------------------------------------------------------------------------
\* types.rs: ID::new called from several threads

\* the threads that call ID::new
NumThreads == 2
Threads == 1..NumThreads

\* the calls of ID::new made in all
MaxCalls == 6

\* the width of a limb, standing for the 64 bits of u64
U64Width == 2
u64_MAX == 2^U64Width - 1

\* no thread holds the mutex
free == 0

\* try_lock that hands out the guard whether or not the mutex is held
try_lock_unguarded(h, t) == [is_err |-> h # h, holder |-> t]

\* ID_COUNTER.try_lock() by thread t when h holds the mutex: the guard, or
\* Err(WouldBlock). No thread panics while holding the guard, so the mutex is
\* never poisoned.
try_lock(h, t) ==
    IF h = free THEN [is_err |-> FALSE, holder |-> t] ELSE [is_err |-> TRUE, holder |-> h]

\* the increment that wraps the last limb
bump_wrapping(vec_val) ==
    [vec_val EXCEPT ![Len(vec_val)] = (@ + 1) % (u64_MAX + 1)]

\* `if *vec_val.last().unwrap() == u64::MAX { vec_val.push(0) } else { last += 1 }`
bump(vec_val) ==
    IF vec_val[Len(vec_val)] = u64_MAX THEN Append(vec_val, 0)
    ELSE [vec_val EXCEPT ![Len(vec_val)] = @ + 1]

\* impl PartialEq for ID: eq
ID_eq(self, other) ==
    IF Len(self) # Len(other) THEN FALSE
    ELSE \A i \in 1..Len(self) : self[i] = other[i]

\* impl PartialEq for ID: ne
ID_ne(self, other) ==
    IF Len(self) # Len(other) THEN TRUE
    ELSE \E i \in 1..Len(self) : self[i] # other[i]

\* static ID_COUNTER = Mutex::new(vec![0]), and no thread in ID::new
IdIdle ==
    /\ ID_COUNTER = <<0>>
    /\ holder = free
    /\ ipc = [t \in Threads |-> "idle"]
    /\ id_lock = [t \in Threads |-> "none"]
    /\ made = [t \in Threads |-> <<>>]
    /\ cloned = [t \in Threads |-> <<>>]
    /\ issued = <<>>
    /\ started = 0

\* thread t calls ID::new
Call(t) ==
    /\ ipc[t] = "idle"
    /\ started < MaxCalls
    /\ started' = started + 1
    /\ ipc' = [ipc EXCEPT ![t] = "try_lock"]
    /\ UNCHANGED <<ID_COUNTER, holder, id_lock, made, cloned, issued>>
    /\ UNCHANGED <<serverVars, httpVars, jsonVars, objectVars>>

\* `id_lock = ID_COUNTER.try_lock()`, before the loop and in it
TryLock(t) ==
    /\ ipc[t] = "try_lock"
    /\ LET got == try_lock(holder, t)
       IN  /\ holder' = got.holder
           /\ id_lock' = [id_lock EXCEPT ![t] = IF got.is_err THEN "err" ELSE "ok"]
    /\ ipc' = [ipc EXCEPT ![t] = "while"]
    /\ UNCHANGED <<ID_COUNTER, made, cloned, issued, started>>
    /\ UNCHANGED <<serverVars, httpVars, jsonVars, objectVars>>

\* `while id_lock.is_err()`
While(t) ==
    /\ ipc[t] = "while"
    /\ ipc' = [ipc EXCEPT ![t] = IF id_lock[t] = "err" THEN "try_lock" ELSE "bump"]
    /\ UNCHANGED <<ID_COUNTER, holder, id_lock, made, cloned, issued, started>>
    /\ UNCHANGED <<serverVars, httpVars, jsonVars, objectVars>>

\* the increment through the guard
Bump(t) ==
    /\ ipc[t] = "bump"
    /\ ID_COUNTER' = bump(ID_COUNTER)
    /\ made' = [made EXCEPT ![t] = bump(ID_COUNTER)]
    /\ ipc' = [ipc EXCEPT ![t] = "clone"]
    /\ UNCHANGED <<holder, id_lock, cloned, issued, started>>
    /\ UNCHANGED <<serverVars, httpVars, jsonVars, objectVars>>

\* `id: vec_val.clone()`
Clone(t) ==
    /\ ipc[t] = "clone"
    /\ cloned' = [cloned EXCEPT ![t] = ID_COUNTER]
    /\ ipc' = [ipc EXCEPT ![t] = "return"]
    /\ UNCHANGED <<ID_COUNTER, holder, id_lock, made, issued, started>>
    /\ UNCHANGED <<serverVars, httpVars, jsonVars, objectVars>>

\* `return ID { .. }`: the guard is dropped and the caller has the ID
Return(t) ==
    /\ ipc[t] = "return"
    /\ holder' = IF holder = t THEN free ELSE holder
    /\ issued' = Append(issued, [by |-> t, id |-> cloned[t], made |-> made[t]])
    /\ id_lock' = [id_lock EXCEPT ![t] = "none"]
    /\ ipc' = [ipc EXCEPT ![t] = "idle"]
    /\ UNCHANGED <<ID_COUNTER, made, cloned, started>>
    /\ UNCHANGED <<serverVars, httpVars, jsonVars, objectVars>>

----------------------------------------------------------------------------
\* handle_request at work: the peer's bytes arrive in chunks of any sizes

Wire(method, lines, body) ==
    HeaderBlock(method, RouteText, VersionText, lines) \o header_end \o body

HostA == Header(HostName, <<97>>)
Length(digits) == Header(ContentLengthName, digits)

\* what a peer sends before it closes
Messages ==
    {<<>>,
     <<49>>,                                                  \* 1
     <<116, 114, 117, 101>>,                                  \* true
     <<91, 49, 93>>,                                          \* [1]
     Wire("GET", <<HostA>>, <<>>),
     Wire("GET", <<HostA, Length(<<51>>)>>, <<97, 98, 99>>),
     Wire("HEAD", <<Header(ContentTypeName, <<98, 111, 103, 117, 115>>), HostA>>, <<>>),
     Wire("POST", <<HostA>>, <<>>),
     Wire("POST", <<HostA, Length(<<51>>)>>, <<91, 49, 93>>),  \* [1]
     Wire("POST", <<HostA, Header(ContentTypeName, ApplicationJsonText),
                    Length(<<52>>)>>, <<34, 195, 169, 34>>),   \* "e-acute" in UTF-8
     Wire("POST", <<HostA, Header(ContentTypeName, ApplicationOctetStreamText),
                    Length(<<50>>)>>, <<255, 0>>),
     Wire("POST", <<HostA, Length(<<120>>)>>, <<>>),           \* Content-Length: x
     Wire("POST", <<HostA, Length(<<48>>)>>, <<>>),            \* Content-Length: 0
     Wire("POST", <<HostA, Length(UsizeMaxDigits)>>, <<>>),    \* usize::MAX
     Wire("PUT", <<HostA, Length(<<53>>)>>, <<97, 98, 99>>),   \* 3 bytes of 5
     Wire("PUT", <<HostA, Length(<<49>>)>>, <<97, 98, 99>>),   \* 3 bytes for 1
     Wire("PUT", <<HostA, Length(<<48>>)>>, <<97, 98>>),       \* 2 bytes for 0
     Wire("PATCH", <<Length(<<51>>)>>, <<97, 98, 99>>),        \* no Host
     Wire("DELETE", <<HostA, Header(ContentTypeName, <<98, 111, 103, 117, 115>>)>>,
          <<>>)}

ServerIdle ==
    /\ wire = <<>> /\ buf = <<>> /\ temp_buff = <<>> /\ req_complete = FALSE
    /\ content_index = 0 /\ reading_content = FALSE /\ pending_bytes = 0
    /\ req = <<>> /\ pc = "idle" /\ result = <<>> /\ written = "nothing"
    /\ reads = <<>>

\* the locals of handle_request as declared
ServerStart ==
    /\ wire \in Messages
    /\ buf = <<>>
    /\ req_complete = FALSE
    /\ temp_buff = [i \in 1..TempBuffSize |-> 0]
    /\ content_index = 0
    /\ reading_content = FALSE
    /\ pending_bytes = 0
    /\ req = <<>>
    /\ pc = "read"
    /\ result = <<>>
    /\ written = "nothing"
    /\ reads = <<>>

----------------------------------------------------------------------------
\* The specifications

Init == ServerStart /\ HttpIdle /\ JsonIdle /\ ObjectIdle /\ IdIdle

Next ==
    \/ \E bytes_read \in 1..TempBuffSize : ReadChunk(bytes_read)
    \/ ReadClosed
    \/ ReadFails
    \/ \E io \in {"ok", "write fails", "flush fails"} : Respond(io)

Spec == Init /\ [][Next]_vars

HttpInit == HttpStart /\ ServerIdle /\ JsonIdle /\ ObjectIdle /\ IdIdle

HttpNext == BuildBlock \/ ParseBlock

SpecHttp == HttpInit /\ [][HttpNext]_vars

JsonInit == JsonStart /\ ServerIdle /\ HttpIdle /\ ObjectIdle /\ IdIdle

JsonNext == Render \/ Tokenise \/ ParseTokens

SpecJson == JsonInit /\ [][JsonNext]_vars

ObjectInit == ObjectStart /\ ServerIdle /\ HttpIdle /\ JsonIdle /\ IdIdle

ObjectNext == \E key \in Keys : index(key) \/ index_mut(key)

SpecObject == ObjectInit /\ [][ObjectNext]_vars

IdInit == IdIdle /\ ServerIdle /\ HttpIdle /\ JsonIdle /\ ObjectIdle

IdNext ==
    \E t \in Threads :
        Call(t) \/ TryLock(t) \/ While(t) \/ Bump(t) \/ Clone(t) \/ Return(t)

SpecId == IdInit /\ [][IdNext]_vars

----------------------------------------------------------------------------
\* The claims

\* the first chunk was the header block with its terminator and not one body byte,
\* and the header declares a content-length above zero
HeaderAloneFirst ==
    /\ Len(reads) >= 1 /\ reads[1] > 0
    /\ req # <<>> /\ req[1].content_length # <<>> /\ req[1].content_length[1] > 0
    /\ content_index = reads[1]

\* C1: after a first chunk that is the whole header of a request with content-length
\* L > 0, a body chunk of a < L bytes leaves the request incomplete and the reader
\* reading, and a further chunk of L - a bytes completes it.
C1_CompleteOnceAllBodyBytesArrived ==
    HeaderAloneFirst =>
        LET L == req[1].content_length[1]
        IN  /\ (Len(reads) = 2 /\ reads[2] > 0 /\ reads[2] < L)
                   => (~req_complete /\ pc = "read")
            /\ (Len(reads) = 3 /\ reads[2] > 0 /\ reads[2] < L /\ reads[3] = L - reads[2])
                   => req_complete

\* what the peer sends in all: what was read and what is still to come
Sent == buf \o wire

\* the peer sends a request whose header block parses
SendsValidRequest ==
    /\ Contains(Sent, header_end)
    /\ from_bytes(SliceTo(Sent, Find(Sent, header_end))).ok

\* C2: when the first chunk of a valid request ends before the header terminator is
\* complete, the reader does not leave the loop: it goes on to read the next chunk.
C2_ReadsOnUntilTerminator ==
    (/\ Len(reads) = 1 /\ reads[1] > 0
     /\ SendsValidRequest
     /\ Len(buf) < Find(Sent, header_end) + Len(header_end))
        => (~req_complete /\ pc = "read")

\* C3: once a header was parsed that carries no content-length, the request is
\* complete and the descriptor present on that very chunk: the reader is past the
\* loop and makes no further read.
C3_NoLengthCompletesAtOnce ==
    (req # <<>> /\ req[1].content_length = <<>>)
        => (req_complete /\ pc \in {"respond", "done"} /\ ~reading_content)

\* a GET whose Content-Length line was dropped is answered while its body bytes are
\* still unread
C3_Witness ==
    /\ pc = "done" /\ result = <<[kind |-> "ok"]>>
    /\ req # <<>> /\ req[1].method = "GET" /\ req[1].content_length = <<>>
    /\ Len(reads) = 1 /\ wire # <<>>

\* the Host lines of a block that carry a value
HostLines(src) ==
    {i \in 1..Len(src.lines) : src.lines[i].name = HostName /\ src.lines[i].value # <<>>}

\* the value of the last Host line that carries one
LastHost(src) ==
    src.lines[CHOOSE i \in HostLines(src) : \A j \in HostLines(src) : j <= i].value

\* the result carries the method, route, version and host of the block
SameFields(out, src) ==
    /\ out.ok
    /\ out.method = src.method
    /\ out.route = src.route
    /\ out.http_version = src.http_version
    /\ out.host = LastHost(src)

\* every Content-Type line that carries a value names a supported content type
ContentTypesKnown(src) ==
    \A i \in 1..Len(src.lines) :
        (src.lines[i].name = ContentTypeName /\ src.lines[i].value # <<>>)
            => src.lines[i].value \in
                   {TextPlainText, ApplicationJsonText, ApplicationOctetStreamText}

\* C4: a header block with all required fields parses to its own method, route,
\* version and host whatever other header lines it carries. Stated for the blocks
\* that 4.2 does not itself reject: valid UTF-8 text in which, for POST, PUT, PATCH,
\* DELETE and OPTIONS, every Content-Type line with a value names a supported type.
C4_RequiredFieldsParse ==
    (/\ hpc = "done" /\ hsrc # <<>> /\ HostLines(hsrc[1]) # {}
     /\ from_utf8_ok(hbytes)
     /\ (hsrc[1].method \in {"POST", "PUT", "PATCH", "DELETE", "OPTIONS"}
            => ContentTypesKnown(hsrc[1])))
        => SameFields(hout[1], hsrc[1])

\* C5: a result carries content_type or content_length only for POST, PUT, PATCH,
\* DELETE and OPTIONS; for GET, HEAD, TRACE and CONNECT both are absent and a block
\* of text with a Host parses whatever Content-Type and Content-Length lines it has.
C5_BodyFieldsOnlyForBodyMethods ==
    (hpc = "done" /\ hsrc # <<>>) =>
        /\ (hout[1].ok /\ (hout[1].content_type # <<>> \/ hout[1].content_length # <<>>))
               => hout[1].method \in {"POST", "PUT", "PATCH", "DELETE", "OPTIONS"}
        /\ (/\ hsrc[1].method \in {"GET", "HEAD", "TRACE", "CONNECT"}
            /\ HostLines(hsrc[1]) # {}
            /\ from_utf8_ok(hbytes))
               => (/\ hout[1].ok
                   /\ hout[1].content_type = <<>>
                   /\ hout[1].content_length = <<>>)

\* a TRACE with an unknown Content-Type and a valid Content-Length parses without them
C5_Witness ==
    /\ hpc = "done" /\ hsrc # <<>> /\ hout[1].ok
    /\ hsrc[1].method = "TRACE"
    /\ hout[1].content_type = <<>> /\ hout[1].content_length = <<>>
    /\ \E i \in 1..Len(hsrc[1].lines) :
          hsrc[1].lines[i] = Header(ContentTypeName, <<98, 111, 103, 117, 115>>)
    /\ \E i \in 1..Len(hsrc[1].lines) :
          hsrc[1].lines[i] = Header(ContentLengthName, <<51>>)

\* two values are equivalent: equal, or numbers of the same numeric value
Equivalent(a, b) ==
    IF a.t = "Number" /\ b.t = "Number" /\ a.n.t # b.n.t
    THEN LET int == IF a.n.t = "Int" THEN a.n ELSE b.n
             float == IF a.n.t = "Float" THEN a.n ELSE b.n
         IN  float.e = 0 /\ float.m = int.i
    ELSE a = b

\* C6: the text Display renders for a scalar parses back to an equivalent value.
C6_ScalarRoundTrip ==
    (jorigin = "value" /\ jpc = "done" /\ jval[1] \in ScalarValues)
        => (jout[1].kind = "ok" /\ Equivalent(jout[1].val, jval[1]))

\* a comma is immediately followed by a closing ] or }
CommaBeforeClose(tokens) ==
    \E i \in 1..(Len(tokens) - 1) :
        tokens[i].t = "Comma" /\ tokens[i + 1].t \in {"BracketClose", "CurlyClose"}

\* C7: an input in which a comma is immediately followed by a closing ] or } is
\* rejected with an error.
C7_TrailingCommaRejected ==
    (jpc = "done" /\ jorigin = "text" /\ CommaBeforeClose(jtokens))
        => jout[1].kind = "err"

\* C8: the tokens '[' v1 ',' ... ',' vn ']' parse to the List of v1 .. vn in order,
\* and the index returned is that of the closing ']'.
C8_ArrayOfValues ==
    (jorigin = "tokens" /\ jpc = "done")
        => jvalue = <<JsonOk([t |-> "List",
                              l |-> [i \in 1..Len(jitems) |-> jitems[i].val]],
                             Len(jtokens) - 1)>>

\* C9: Json::parse returns a value or an error for every buffer: it never indexes
\* past the end of the buffer or of the tokens, which aborts the process.
C9_ParseNeverPanics ==
    jpc = "done" => jout[1].kind \in {"ok", "err"}

\* C10: after read accesses alone the map is the one the object was built with, and
\* the last read returned the stored value of a present key, Absent for an absent one.
C10_ReadKeepsMap ==
    (\A i \in 1..Len(accesses) : accesses[i].op = "index") =>
        /\ map = map0
        /\ accesses # <<>> =>
               LET key == accesses[Len(accesses)].key
               IN  returned = <<IF key \in DOMAIN map0 THEN map0[key]
                                ELSE [t |-> "None"]>>

\* a read of an absent key, then a read of a present one
C10_Witness ==
    /\ Len(accesses) = 2
    /\ accesses[1].op = "index" /\ accesses[1].key \notin DOMAIN map0
    /\ accesses[2].op = "index" /\ accesses[2].key \in DOMAIN map0
    /\ returned = <<JInt(1)>>

\* the keys probed through write-intent access
Probed ==
    {accesses[i].key : i \in {j \in 1..Len(accesses) : accesses[j].op = "index_mut"}}

\* C11: after any reads and write-intent accesses the keys are the original keys
\* plus the keys probed through write-intent access, every original entry keeps its
\* value, every added entry is Absent, the last write-intent access returned the
\* entry of its key, and the object renders as it did when it was built.
C11_WriteIntentAddsAbsent ==
    /\ DOMAIN map = DOMAIN map0 \cup Probed
    /\ \A k \in DOMAIN map0 : map[k] = map0[k]
    /\ \A k \in DOMAIN map \ DOMAIN map0 : map[k] = [t |-> "None"]
    /\ (accesses # <<>> /\ accesses[Len(accesses)].op = "index_mut") =>
           LET key == accesses[Len(accesses)].key
           IN  returned = <<IF key \in DOMAIN map0 THEN map0[key] ELSE [t |-> "None"]>>
    /\ JsonObject_fmt(map) = JsonObject_fmt(map0)

\* write-intent access to an absent key and then to a present one, in an object that
\* renders a member
C11_Witness ==
    /\ Len(accesses) = 2
    /\ accesses[1].op = "index_mut" /\ accesses[1].key \notin DOMAIN map0
    /\ accesses[2].op = "index_mut" /\ accesses[2].key \in DOMAIN map0
    /\ map0[accesses[2].key] = JInt(1)
    /\ DOMAIN map # DOMAIN map0

\* C12: a read of zero bytes before the request is complete ends handle_request with
\* the peer-disconnected error and a failing read ends it with the I/O error; in
\* both cases nothing is written to the stream.
C12_FailedReadEndsWithoutResponse ==
    (reads # <<>> /\ reads[Len(reads)] <= 0) =>
        /\ pc = "done"
        /\ written = "nothing"
        /\ result = <<[kind |-> "err",
                       err |-> IF reads[Len(reads)] = 0 THEN "Client disconnected"
                               ELSE "read error"]>>

\* the peer closes while body bytes are still awaited
C12_Witness ==
    /\ Len(reads) >= 2 /\ reads[Len(reads)] = 0
    /\ reading_content /\ pending_bytes > 0
    /\ result = <<[kind |-> "err", err |-> "Client disconnected"]>>
    /\ written = "nothing"

\* the error named after a required field
FieldError(f) ==
    CASE f = "method" -> "Invalid request - Method was not found"
      [] f = "route" -> "Invalid request - Route was not found"
      [] f = "http_version" -> "Invalid request - HTTP version is not found"
      [] f = "host" -> "Invalid request - Host is not found"

\* C13: a header block that lacks just one of method, route, version and Host is
\* answered with the error named after that field.
C13_MissingFieldNamed ==
    hpc = "done" =>
        \A f \in RequiredFields :
            hbytes \in LackingBlocks(f) => hout[1] = HttpErr(FieldError(f))

EmptyArrayTokens == <<[t |-> "BracketOpen"], [t |-> "BracketClose"]>>
EmptyObjectTokens == <<[t |-> "CurlyOpen"], [t |-> "CurlyClose"]>>

\* the tokens of inner as the one element of an array
AsElement(inner) == <<[t |-> "BracketOpen"]>> \o inner \o <<[t |-> "BracketClose"]>>

\* the tokens of inner as the value of the one field "a" of an object
AsField(inner) ==
    <<[t |-> "CurlyOpen"], [t |-> "String", s |-> <<97>>], [t |-> "Colon"]>>
    \o inner \o <<[t |-> "CurlyClose"]>>

EmptyList == [t |-> "List", l |-> <<>>]

ExpectedMap(entries) ==
    [k \in {entries[i].key : i \in 1..Len(entries)} |->
        entries[CHOOSE i \in 1..Len(entries) :
                    /\ entries[i].key = k
                    /\ \A j \in (i + 1)..Len(entries) : entries[j].key # k].val]

\* C15: an object text of n >= 1 entries "key":value separated by ',' parses without
\* error to the Object whose keys are the keys of the text, each with the value of
\* its last occurrence.
C15_ObjectKeysLastWins ==
    (jorigin = "entries" /\ jpc = "done")
        => jout = <<[kind |-> "ok",
                     val |-> [t |-> "Object", o |-> ExpectedMap(jitems)]]>>

\* the texts of the elements from the i-th on, joined by ", "
RECURSIVE JoinedElements(_, _)
JoinedElements(list, i) ==
    IF i > Len(list) THEN <<>>
    ELSE (CHOOSE text \in Json_fmt(list[i]) : TRUE)
         \o (IF i < Len(list) THEN <<44, 32>> ELSE <<>>)
         \o JoinedElements(list, i + 1)

\* C16: a List of n scalars renders as '[', the rendered elements joined by the
\* separator with none after the last, and ']' ("[]" for n = 0), and Json::parse
\* accepts that text again.
C16_ListJoinedBySeparator ==
    (/\ jorigin = "value" /\ jpc # "value"
     /\ jval[1].t = "List"
     /\ \A i \in 1..Len(jval[1].l) : jval[1].l[i] \in ScalarValues \cup {JInt(1), JInt(2)})
        => /\ jin = <<91>> \o JoinedElements(jval[1].l, 1) \o <<93>>
           /\ jpc = "done" => jout[1].kind = "ok"

\* the Content-Length lines of a block that carry a value
LengthLines(src) ==
    {i \in 1..Len(src.lines) :
        src.lines[i].name = ContentLengthName /\ src.lines[i].value # <<>>}

\* the last Content-Length line that carries a value holds a byte that is no digit
LastLengthNotANumber(src) ==
    /\ LengthLines(src) # {}
    /\ LET last == CHOOSE i \in LengthLines(src) : \A j \in LengthLines(src) : j <= i
           value == src.lines[last].value
       IN  \E k \in 1..Len(value) : ~(value[k] \in 48..57)

\* C17: for POST, PUT, PATCH, DELETE and OPTIONS a Content-Length value that is no
\* non-negative integer leaves content_length absent, also after an earlier valid
\* Content-Length line, and does not make from_bytes fail: a block of text with a
\* Host and supported content types still parses.
C17_UnparsableLengthIsAbsent ==
    (/\ hpc = "done" /\ hsrc # <<>>
     /\ hsrc[1].method \in {"POST", "PUT", "PATCH", "DELETE", "OPTIONS"}
     /\ LastLengthNotANumber(hsrc[1]))
        => /\ hout[1].ok => hout[1].content_length = <<>>
           /\ (/\ HostLines(hsrc[1]) # {}
               /\ from_utf8_ok(hbytes)
               /\ ContentTypesKnown(hsrc[1]))
                  => hout[1].ok

\* a POST with Content-Length: 3 and then Content-Length: x parses without a length
C17_Witness ==
    /\ hpc = "done" /\ hsrc # <<>>
    /\ hsrc[1].method = "POST"
    /\ hsrc[1].lines = <<Header(HostName, <<97>>), Header(ContentLengthName, <<51>>),
                         Header(ContentLengthName, <<120>>)>>
    /\ hout[1].ok /\ hout[1].content_length = <<>>

\* the text is a string literal that opens with the escape \u
OpensWithUnicodeEscape(text) == Len(text) >= 3 /\ SubSeq(text, 1, 3) = <<34, 92, 117>>

\* bytes that are neither a quote nor a backslash, closed by the quote that ends the
\* text
PlainThenQuote(tail) ==
    /\ tail # <<>> /\ tail[Len(tail)] = 34
    /\ \A i \in 1..(Len(tail) - 1) : tail[i] \notin {34, 92}

\* C18: in a string literal, \u and four hex digits append the one character of that
\* code point and lexing resumes right after the fourth digit ("\u0041" is A,
\* "\u0041B" is AB); fewer than four bytes left, a byte among the four that is no
\* hex digit, or a code point in D800..DFFF is an error.
C18_UnicodeEscape ==
    (jpc = "done" /\ jorigin = "text" /\ OpensWithUnicodeEscape(jin)) =>
        LET rest == SubSeq(jin, 4, Len(jin))
        IN  IF Len(rest) < 4 \/ (\E i \in 1..4 : ~is_ascii_hexdigit(rest[i]))
            THEN jout[1].kind = "err"
            ELSE LET code == from_str_radix(SubSeq(rest, 1, 4))
                     tail == SubSeq(rest, 5, Len(rest))
                 IN  /\ (code >= 55296 /\ code <= 57343) => jout[1].kind = "err"
                     /\ (~(code >= 55296 /\ code <= 57343) /\ PlainThenQuote(tail))
                            => /\ jtokens = <<[t |-> "String",
                                               s |-> <<code>>
                                                     \o SubSeq(tail, 1, Len(tail) - 1)]>>
                               /\ jout[1].kind = "ok"
                     /\ jin = <<34, 92, 117, 48, 48, 52, 49, 34>>
                            => jtokens = <<[t |-> "String", s |-> <<65>>]>>
                     /\ jin = <<34, 92, 117, 48, 48, 52, 49, 66, 34>>
                            => jtokens = <<[t |-> "String", s |-> <<65, 66>>]>>

\* "\u0041B" was lexed to AB
C18_Witness ==
    /\ jpc = "done" /\ jorigin = "text"
    /\ jin = <<34, 92, 117, 48, 48, 52, 49, 66, 34>>
    /\ jtokens = <<[t |-> "String", s |-> <<65, 66>>]>>
    /\ jout = <<[kind |-> "ok", val |-> JString(<<65, 66>>)]>>

\* the one chunk read so far carries the header terminator
HeaderChunkRead == Len(reads) = 1 /\ reads[1] > 0 /\ Contains(buf, header_end)

\* C19: pending_bytes is never below 0 nor above the declared content-length; after
\* the chunk that carries the terminator and k body bytes of a request with
\* content-length L it is L - k for k <= L, and for k > L the request is complete
\* on that chunk.
C19_PendingWithinLength ==
    /\ pending_bytes >= 0
    /\ (req # <<>> /\ req[1].content_length # <<>>)
           => pending_bytes <= req[1].content_length[1]
    /\ HeaderChunkRead =>
           LET end_index == Find(buf, header_end)
               head == from_bytes(SliceTo(buf, end_index))
               k == Len(buf) - end_index - Len(header_end)
           IN  (head.ok /\ head.content_length # <<>>) =>
                   IF k <= head.content_length[1]
                   THEN pending_bytes = head.content_length[1] - k
                   ELSE req_complete /\ pc # "done"

\* Every closing token from the i-th on closes the opening token last left open
\* (stack holds the opening tokens still open), and none is left open at the end.
RECURSIVE Closed(_, _, _)
Closed(tokens, i, stack) ==
    IF i > Len(tokens) THEN stack = <<>>
    ELSE IF tokens[i].t \in {"CurlyOpen", "BracketOpen"}
    THEN Closed(tokens, i + 1, <<tokens[i].t>> \o stack)
    ELSE IF tokens[i].t \in {"CurlyClose", "BracketClose"}
    THEN /\ stack # <<>>
         /\ stack[1] = (IF tokens[i].t = "CurlyClose" THEN "CurlyOpen" ELSE "BracketOpen")
         /\ Closed(tokens, i + 1, Tail(stack))
    ELSE Closed(tokens, i + 1, stack)

\* C20: Json::parse succeeds only on one complete value: in the tokens of an
\* accepted input every '{' is closed by its own '}' and every '[' by its own ']'.
C20_AcceptedIsOneClosedValue ==
    (jpc = "done" /\ jout # <<>> /\ jout[1].kind = "ok" /\ jtokens # <<>>)
        => Closed(jtokens, 1, <<>>)

\* the content-length of the header handle_request has parsed, 0 when it has none
LengthRead ==
    IF req # <<>> /\ req[1].content_length # <<>> THEN req[1].content_length[1] ELSE 0

\* C21: the read loop of handle_request ends after finitely many reads: for
\* content-length L it makes at most 1 + L calls of stream.read.
C21_ReadsWithinLength ==
    Len(reads) <= 1 + LengthRead

\* C22: in every interleaving of threads calling ID::new the returned IDs are
\* pairwise different, each is the counter value its own call produced, and at
\* u64::MAX a limb 0 was appended to it instead of the last limb wrapping.
C22_IdsUniqueAndOwn ==
    /\ \A i, j \in 1..Len(issued) :
           i # j => (~ID_eq(issued[i].id, issued[j].id) /\ ID_ne(issued[i].id, issued[j].id))
    /\ \A i \in 1..Len(issued) : issued[i].id = issued[i].made
    /\ \A i \in 1..Len(issued) : \A k \in 1..(Len(issued[i].id) - 1) :
           issued[i].id[k] = u64_MAX

\* two threads have IDs, one of them from after the last limb reached u64::MAX,
\* and a thread is waiting for the mutex another holds
C22_Witness ==
    /\ \E i, j \in 1..Len(issued) :
           issued[i].by # issued[j].by /\ Len(issued[j].id) = 2
    /\ \E t, u \in Threads : holder = u /\ u # t /\ id_lock[t] = "err"

====
